---- MODULE Spec2Model ----
(***************************************************************************)
(* The vCPU execution core of hyperlight_host (hypervisor/mod.rs):         *)
(* VirtualCPU::run, the InterruptHandle operations of                      *)
(* LinuxInterruptHandle (kill, kill_from_debugger, send_signal) and the    *)
(* vCPU thread's side of the interrupt protocol (the backend's run step).  *)
(* The build modelled has kvm/mshv, gdb and crashdump enabled.             *)
(***************************************************************************)
EXTENDS Integers, FiniteSets, Sequences, TLC

(* ------------------------------ bounds --------------------------------- *)
\* Number of values the generation field of the packed word takes before it
\* goes back to 0 (2^63 in the program).
Generations == 2
\* Signals in flight to the vCPU thread at one time.
MaxPending == 2
\* Largest value the cancellation metric takes before no new call is made.
MaxMetric == 2

(* ------------------------- program constants --------------------------- *)
\* The packed word is generation + RUNNING_BIT * running.
RUNNING_BIT == Generations
MAX_GENERATION == RUNNING_BIT - 1

\* The thread calling kill() / kill_from_debugger() on the interrupt handle;
\* it makes one call after another.
Killers == {1}
\* The host thread that owns the vCPU; 0 is the tid before any run.
VcpuThread == 1
NoThread == 0
\* target_generation: Option<u64> = None
None == -1

(* What the hypervisor's run call can come back with on its own. *)
GuestOutcomes ==
    {"Halt", "IoOut", "Mmio", "AccessViolation", "Unknown", "Debug", "EAGAIN", "Err"}

\* MemoryRegionFlags, as sets of flag names.
STACK_GUARD == "STACK_GUARD"
MemoryRegionFlags == SUBSET {"READ", "WRITE", "EXECUTE", STACK_GUARD}

\* An exit that carries no values.
NoArgs == << >>

\* IoOut(port, data, rip, instruction_length)
IoOutArgs == {<<80, 1, 4096, 2>>, <<81, 2, 8192, 3>>}
\* Mmio(addr)
MmioArgs == {<<4096>>, <<8192>>}
\* AccessViolation(addr, tried, region_permission)
AccessViolationArgs ==
    {<<4096, {"WRITE"}, {"READ"}>>,
     <<8192, {"EXECUTE"}, {"READ", "WRITE"}>>,
     <<4096, {"WRITE"}, {STACK_GUARD, "READ", "WRITE"}>>}

\* The values an exit of each kind can carry.
ArgsOf(o) ==
    CASE o = "IoOut" -> IoOutArgs
      [] o = "Mmio" -> MmioArgs
      [] o = "AccessViolation" -> AccessViolationArgs
      [] OTHER -> {NoArgs}

VARIABLES
    running,            \* LinuxInterruptHandle.running: running bit | generation
    tid,                \* LinuxInterruptHandle.tid
    cancel_requested,   \* LinuxInterruptHandle.cancel_requested
    debug_interrupt,    \* LinuxInterruptHandle.debug_interrupt
    dropped,            \* LinuxInterruptHandle.dropped
    vpc,                \* position of the vCPU thread
    raw,                \* what the hypervisor call returned, until it is classified
    exit,               \* the HyperlightExit the run step reported
    payload,            \* the values that exit carries
    hostArgs,           \* what handle_io was called with, while it runs
    guestEntered,       \* this run step executed the guest
    interrupted,        \* a signal ended this run step's hypervisor call
    result,             \* what the last VirtualCPU::run returned
    errArgs,            \* the values the returned error carries
    looped,             \* this call's loop has gone round: hv.run() was called again
    metric,             \* METRIC_GUEST_CANCELLATION
    dumped,             \* crashdump::generate_crashdump was invoked in this call
    notified,           \* the debug stub was told VcpuStopReason::Crash in this call
    sigPending,         \* signals sent to the vCPU thread and not yet delivered
    kpc,                \* position of each killer
    kind,               \* which operation the killer is in
    sent_signal,        \* send_signal's local
    target_generation,  \* send_signal's local
    snap,               \* send_signal's last (running, generation)
    kStoreCtx,          \* where the vCPU thread was when the call set its flag
    kStoreGen,          \* the generation field when the call set its flag
    kStoreSet,          \* the flag was already set when the call set it
    kDropped,           \* what the caller's last call of dropped() returned
    mem_regions,        \* get_memory_access_violation: the region list
    gpa,                \* get_memory_access_violation: the address
    access_info,        \* get_memory_access_violation: the attempted access
    violation,          \* what get_memory_access_violation returned
    vpcB,               \* a second sandbox on the same thread: its position
    runningB,           \* its LinuxInterruptHandle.running
    cancel_requestedB,  \* its LinuxInterruptHandle.cancel_requested
    rawB,               \* what its hypervisor call returned
    exitB,              \* the HyperlightExit its run step reported
    resultB,            \* what its last VirtualCPU::run returned
    val,                \* get_max_log_level: the value of RUST_LOG
    max_log_level       \* what get_max_log_level returned

handle == <<running, tid, cancel_requested, debug_interrupt, dropped>>
vcpu == <<vpc, raw, exit, payload, hostArgs, guestEntered, interrupted, result,
         errArgs, looped, metric, dumped, notified>>
killer == <<kpc, kind, sent_signal, target_generation, snap, kStoreCtx, kStoreGen,
           kStoreSet, kDropped>>
arbiter == <<mem_regions, gpa, access_info, violation>>
sandboxB == <<vpcB, runningB, cancel_requestedB, rawB, exitB, resultB>>
\* What the steps of the first sandbox and of its callers leave alone.
logger == <<val, max_log_level>>
others == <<arbiter, sandboxB, logger>>
vars == <<handle, vcpu, sigPending, killer, others>>

(* ------------------------ the packed running word ---------------------- *)
\* raw & !RUNNING_BIT
GenerationOf(w) == w % RUNNING_BIT
\* raw & RUNNING_BIT != 0
RunningOf(w) == (w \div RUNNING_BIT) % 2 = 1

\* (generation + 1) | RUNNING_BIT in u64 arithmetic, without the restart at
\* MAX_GENERATION.
SetRunningAndIncrementGeneration_NoRestart(w) ==
    (GenerationOf(w) + 1 + RUNNING_BIT) % (2 * RUNNING_BIT)

SetRunningAndIncrementGeneration(w) ==
    LET generation == GenerationOf(w)
    IN  IF generation = MAX_GENERATION
        THEN RUNNING_BIT
        ELSE (generation + 1) + RUNNING_BIT

ClearRunningBit(w) == GenerationOf(w)

GetRunningAndGeneration(w) ==
    [running |-> RunningOf(w), generation |-> GenerationOf(w)]

NoSnap == [running |-> FALSE, generation |-> None]

(* ------------------------------- Init ---------------------------------- *)
\* The sandbox after construction, its caller and the killer at rest.
SandboxInit ==
    /\ running = 0
    /\ tid = NoThread
    /\ cancel_requested = FALSE
    /\ debug_interrupt = FALSE
    /\ dropped = FALSE
    /\ vpc = "idle"
    /\ raw = "none"
    /\ exit = "none"
    /\ payload = NoArgs
    /\ hostArgs = NoArgs
    /\ guestEntered = FALSE
    /\ interrupted = FALSE
    /\ result = "none"
    /\ errArgs = NoArgs
    /\ looped = FALSE
    /\ metric = 0
    /\ dumped = FALSE
    /\ notified = FALSE
    /\ sigPending = 0
    /\ kpc = [k \in Killers |-> "idle"]
    /\ kind = [k \in Killers |-> "none"]
    /\ sent_signal = [k \in Killers |-> FALSE]
    /\ target_generation = [k \in Killers |-> None]
    /\ snap = [k \in Killers |-> NoSnap]
    /\ kStoreCtx = [k \in Killers |-> "none"]
    /\ kStoreGen = [k \in Killers |-> None]
    /\ kStoreSet = [k \in Killers |-> FALSE]
    /\ kDropped = [k \in Killers |-> FALSE]

\* get_memory_access_violation has not been called.
NotCalled == <<"NotCalled">>

ArbiterIdle ==
    /\ mem_regions = << >>
    /\ gpa = 0
    /\ access_info = {}
    /\ violation = NotCalled

\* No second sandbox runs on the thread.
SandboxBInit ==
    /\ vpcB = "idle"
    /\ runningB = 0
    /\ cancel_requestedB = FALSE
    /\ rawB = "none"
    /\ exitB = "none"
    /\ resultB = "none"

\* get_max_log_level has not been called; RUST_LOG is unset.
NoLevel == -1

LoggerIdle ==
    /\ val = << >>
    /\ max_log_level = NoLevel

Init ==
    /\ SandboxInit
    /\ ArbiterIdle
    /\ SandboxBInit
    /\ LoggerIdle

(* --------------------- the vCPU thread: one run step ------------------- *)
\* The sandbox driver calls VirtualCPU::run (initialise, dispatch_call_from_host).
CallRun ==
    /\ vpc = "idle"
    /\ ~dropped
    /\ metric < MaxMetric
    /\ vpc' = "top"
    /\ result' = "none"
    /\ errArgs' = NoArgs
    /\ looped' = FALSE
    /\ dumped' = FALSE
    /\ notified' = FALSE
    /\ UNCHANGED <<handle, raw, exit, payload, hostArgs, guestEntered,
                   interrupted, metric, sigPending, killer>>
    /\ UNCHANGED others

\* The sandbox is dropped; the interrupt handle outlives it.
Drop ==
    /\ vpc = "idle"
    /\ ~dropped
    /\ dropped' = TRUE
    /\ UNCHANGED <<running, tid, cancel_requested, debug_interrupt, vcpu,
                   sigPending, killer>>
    /\ UNCHANGED others

\* A run step that does not record the thread it runs on.
StoreTid_Skip ==
    /\ vpc = "top"
    /\ vpc' = "begin"
    /\ UNCHANGED <<handle, raw, exit, payload, hostArgs, guestEntered,
                   interrupted, result, looped, errArgs, metric, dumped,
                   notified, sigPending, killer>>
    /\ UNCHANGED others

\* backend.run(), step 1a: record the thread's own tid.
StoreTid ==
    /\ vpc = "top"
    /\ tid' = VcpuThread
    /\ vpc' = "begin"
    /\ UNCHANGED <<running, cancel_requested, debug_interrupt, dropped, raw,
                   exit, payload, hostArgs, guestEntered, interrupted, result,
                   looped, errArgs, metric, dumped, notified, sigPending,
                   killer>>
    /\ UNCHANGED others

\* The generations do not wrap within one kill() call: a run step does not
\* begin with the generation an unfinished call saw when it set its flag.
NoWrapDuringKill(g) ==
    \A k \in Killers : kpc[k] # "idle" => kStoreGen[k] # g

\* backend.run(), step 1b: set the running bit and increment the generation.
BeginRun ==
    /\ vpc = "begin"
    /\ NoWrapDuringKill(GenerationOf(SetRunningAndIncrementGeneration(running)))
    /\ running' = SetRunningAndIncrementGeneration(running)
    /\ guestEntered' = FALSE
    /\ interrupted' = FALSE
    /\ raw' = "none"
    /\ vpc' = "check"
    /\ UNCHANGED <<tid, cancel_requested, debug_interrupt, dropped, exit,
                   payload, hostArgs, result, looped, errArgs, metric, dumped,
                   notified, sigPending, killer>>
    /\ UNCHANGED others

\* A run step that starts with an interrupt flag set does not execute the guest.
CheckInterrupt ==
    /\ vpc = "check"
    /\ IF cancel_requested \/ debug_interrupt
       THEN /\ raw' = "EINTR"
            /\ vpc' = "ret"
            /\ UNCHANGED <<guestEntered, interrupted>>
       ELSE /\ vpc' = "guest"
            /\ guestEntered' = TRUE
            /\ UNCHANGED <<raw, interrupted>>
    /\ UNCHANGED <<handle, exit, payload, hostArgs, result, looped, errArgs,
                   metric, dumped, notified, sigPending, killer>>
    /\ UNCHANGED others

\* The guest leaves the hypervisor's run call on its own, with an exit and the
\* values it carries.
GuestExit ==
    /\ vpc = "guest"
    /\ \E o \in GuestOutcomes : \E a \in ArgsOf(o) :
          /\ raw' = o
          /\ payload' = a
    /\ vpc' = "ret"
    /\ UNCHANGED <<handle, exit, hostArgs, guestEntered, interrupted, result,
                   looped, errArgs, metric, dumped, notified, sigPending,
                   killer>>
    /\ UNCHANGED others

\* A signal reaches the vCPU thread. The handler is a no-op; a hypervisor call in
\* flight comes back interrupted.
DeliverSignal ==
    /\ sigPending > 0
    /\ sigPending' = sigPending - 1
    /\ IF vpc = "guest"
       THEN /\ raw' = "EINTR"
            /\ interrupted' = TRUE
            /\ vpc' = "ret"
       ELSE UNCHANGED <<raw, interrupted, vpc>>
    /\ UNCHANGED <<handle, exit, payload, hostArgs, guestEntered, result,
                   looped, errArgs, metric, dumped, notified, killer>>
    /\ UNCHANGED others

\* backend.run(), step 2: clear the running bit.
ClearRunning ==
    /\ vpc = "ret"
    /\ running' = ClearRunningBit(running)
    /\ vpc' = "classify"
    /\ UNCHANGED <<tid, cancel_requested, debug_interrupt, dropped, raw, exit,
                   payload, hostArgs, guestEntered, interrupted, result,
                   looped, errArgs, metric, dumped, notified, sigPending,
                   killer>>
    /\ UNCHANGED others

\* The exit reported for a raw outcome when no interrupt flag is set.
ExitOfRaw(r) ==
    IF r \in {"EINTR", "EAGAIN"} THEN "Retry" ELSE r

\* Step 3 reporting an observed flag without clearing it.
Classify_KeepFlag ==
    /\ vpc = "classify"
    /\ exit' = IF cancel_requested THEN "Cancelled"
               ELSE IF debug_interrupt THEN "Debug"
               ELSE ExitOfRaw(raw)
    /\ payload' = IF cancel_requested \/ debug_interrupt THEN NoArgs ELSE payload
    /\ raw' = "none"
    /\ vpc' = "dispatch"
    /\ UNCHANGED <<handle, hostArgs, guestEntered, interrupted, result, looped,
                   errArgs, metric, dumped, notified, sigPending, killer>>
    /\ UNCHANGED others

\* backend.run(), step 3: an observed interrupt flag is reported and cleared;
\* otherwise the hypervisor's own exit is reported with its values.
Classify ==
    /\ vpc = "classify"
    /\ IF cancel_requested
       THEN /\ exit' = "Cancelled"
            /\ payload' = NoArgs
            /\ cancel_requested' = FALSE
            /\ UNCHANGED debug_interrupt
       ELSE IF debug_interrupt
       THEN /\ exit' = "Debug"
            /\ payload' = NoArgs
            /\ debug_interrupt' = FALSE
            /\ UNCHANGED cancel_requested
       ELSE /\ exit' = ExitOfRaw(raw)
            /\ UNCHANGED <<payload, cancel_requested, debug_interrupt>>
    /\ raw' = "none"
    /\ vpc' = "dispatch"
    /\ UNCHANGED <<running, tid, dropped, hostArgs, guestEntered, interrupted,
                   result, looped, errArgs, metric, dumped, notified,
                   sigPending, killer>>
    /\ UNCHANGED others

(* ------------------- VirtualCPU::run: the match arms ------------------- *)
\* VirtualCPU::run returns r, an error carrying the values a, to its caller.
ReturnWith(r, a) ==
    /\ result' = r
    /\ errArgs' = a
    /\ exit' = "none"
    /\ payload' = NoArgs
    /\ vpc' = "idle"
    /\ UNCHANGED looped

\* VirtualCPU::run returns r to its caller.
Return(r) == ReturnWith(r, NoArgs)

\* The match arm is done and the loop goes round: hv.run() is called again.
Continue ==
    /\ vpc' = "top"
    /\ exit' = "none"
    /\ payload' = NoArgs
    /\ looped' = TRUE
    /\ UNCHANGED <<result, errArgs>>

\* Halt arm that goes round the loop instead of breaking out of it.
DispatchHalt_Continue ==
    /\ vpc = "dispatch" /\ exit = "Halt"
    /\ Continue
    /\ UNCHANGED <<handle, raw, hostArgs, guestEntered, interrupted, metric,
                   dumped, notified, sigPending, killer>>
    /\ UNCHANGED others

\* Ok(HyperlightExit::Halt()) => break; Ok(())
DispatchHalt ==
    /\ vpc = "dispatch" /\ exit = "Halt"
    /\ Return("Ok")
    /\ UNCHANGED <<handle, raw, hostArgs, guestEntered, interrupted, metric,
                   dumped, notified, sigPending, killer>>
    /\ UNCHANGED others

\* IoOut arm that hands handle_io the last two values in the other order.
DispatchIoOut_Swapped ==
    /\ vpc = "dispatch" /\ exit = "IoOut"
    /\ hostArgs' = <<payload[1], payload[2], payload[4], payload[3]>>
    /\ vpc' = "hostcall"
    /\ UNCHANGED <<handle, raw, exit, payload, guestEntered, interrupted,
                   result, looped, errArgs, metric, dumped, notified,
                   sigPending, killer>>
    /\ UNCHANGED others

\* Ok(HyperlightExit::IoOut(port, data, rip, instruction_length)) =>
\*     hv.handle_io(port, data, rip, instruction_length)?  -- the host call starts
DispatchIoOut ==
    /\ vpc = "dispatch" /\ exit = "IoOut"
    /\ hostArgs' = payload
    /\ vpc' = "hostcall"
    /\ UNCHANGED <<handle, raw, exit, payload, guestEntered, interrupted,
                   result, looped, errArgs, metric, dumped, notified,
                   sigPending, killer>>
    /\ UNCHANGED others

\* hv.handle_io returns: the loop continues, or `?` returns its error.
HandleIo ==
    /\ vpc = "hostcall"
    /\ hostArgs' = NoArgs
    /\ \E ok \in BOOLEAN :
          IF ok THEN Continue ELSE Return("HandleIoError")
    /\ UNCHANGED <<handle, raw, guestEntered, interrupted, metric, dumped,
                   notified, sigPending, killer>>
    /\ UNCHANGED others

\* Ok(HyperlightExit::Debug(stop_reason)) => hv.handle_debug(..) starts
DispatchDebug ==
    /\ vpc = "dispatch" /\ exit = "Debug"
    /\ vpc' = "debugcall"
    /\ UNCHANGED <<handle, raw, exit, payload, hostArgs, guestEntered,
                   interrupted, result, looped, errArgs, metric, dumped,
                   notified, sigPending, killer>>
    /\ UNCHANGED others

\* hv.handle_debug returns: the loop continues, or its error is returned.
HandleDebug ==
    /\ vpc = "debugcall"
    /\ \E ok \in BOOLEAN :
          IF ok THEN Continue ELSE Return("HandleDebugError")
    /\ UNCHANGED <<handle, raw, hostArgs, guestEntered, interrupted, metric,
                   dumped, notified, sigPending, killer>>
    /\ UNCHANGED others

\* Ok(HyperlightExit::Mmio(addr)): crashdump?; handle_mem_access?; error
DispatchMmio ==
    /\ vpc = "dispatch" /\ exit = "Mmio"
    /\ dumped' = TRUE
    /\ \E dumpOk \in BOOLEAN, memOk \in BOOLEAN :
          IF ~dumpOk THEN Return("CrashdumpError")
          ELSE IF ~memOk THEN Return("MemAccessError")
          ELSE ReturnWith("MmioAccess", payload)
    /\ UNCHANGED <<handle, raw, hostArgs, guestEntered, interrupted, metric,
                   notified, sigPending, killer>>
    /\ UNCHANGED others

\* region_permission.intersects(MemoryRegionFlags::STACK_GUARD)
IsStackGuard(region_permission) == region_permission \cap {STACK_GUARD} # {}

\* Ok(HyperlightExit::AccessViolation(addr, tried, region_permission)):
\* crashdump?; the debug stub is told Crash, its answer ignored; the error
DispatchAccessViolation ==
    /\ vpc = "dispatch" /\ exit = "AccessViolation"
    /\ dumped' = TRUE
    /\ \E dumpOk \in BOOLEAN :
          IF ~dumpOk
          THEN /\ Return("CrashdumpError")
               /\ UNCHANGED notified
          ELSE /\ notified' = TRUE
               /\ IF IsStackGuard(payload[3])
                  THEN Return("StackOverflow")
                  ELSE ReturnWith("MemoryAccessViolation", payload)
    /\ UNCHANGED <<handle, raw, hostArgs, guestEntered, interrupted, metric,
                   sigPending, killer>>
    /\ UNCHANGED others

\* Cancelled arm that forgets the metric.
DispatchCancelled_NoMetric ==
    /\ vpc = "dispatch" /\ exit = "Cancelled"
    /\ Return("ExecutionCanceledByHost")
    /\ UNCHANGED <<handle, raw, hostArgs, guestEntered, interrupted, metric,
                   dumped, notified, sigPending, killer>>
    /\ UNCHANGED others

\* Cancelled arm that goes round the loop again, as the Retry arm does.
DispatchCancelled_Continue ==
    /\ vpc = "dispatch" /\ exit = "Cancelled"
    /\ metric' = metric + 1
    /\ Continue
    /\ UNCHANGED <<handle, raw, hostArgs, guestEntered, interrupted, dumped,
                   notified, sigPending, killer>>
    /\ UNCHANGED others

\* Ok(HyperlightExit::Cancelled()): the metric is incremented, the run fails
DispatchCancelled ==
    /\ vpc = "dispatch" /\ exit = "Cancelled"
    /\ metric' = metric + 1
    /\ Return("ExecutionCanceledByHost")
    /\ UNCHANGED <<handle, raw, hostArgs, guestEntered, interrupted, dumped,
                   notified, sigPending, killer>>
    /\ UNCHANGED others

\* Ok(HyperlightExit::Unknown(reason))
DispatchUnknown ==
    /\ vpc = "dispatch" /\ exit = "Unknown"
    /\ dumped' = TRUE
    /\ \E dumpOk \in BOOLEAN :
          IF ~dumpOk
          THEN /\ Return("CrashdumpError")
               /\ UNCHANGED notified
          ELSE /\ notified' = TRUE
               /\ Return("UnexpectedExit")
    /\ UNCHANGED <<handle, raw, hostArgs, guestEntered, interrupted, metric,
                   sigPending, killer>>
    /\ UNCHANGED others

\* Retry arm that fails the call instead of going round the loop.
DispatchRetry_Fail ==
    /\ vpc = "dispatch" /\ exit = "Retry"
    /\ Return("BackendError")
    /\ UNCHANGED <<handle, raw, hostArgs, guestEntered, interrupted, metric,
                   dumped, notified, sigPending, killer>>
    /\ UNCHANGED others

\* Ok(HyperlightExit::Retry()) => continue
DispatchRetry ==
    /\ vpc = "dispatch" /\ exit = "Retry"
    /\ Continue
    /\ UNCHANGED <<handle, raw, hostArgs, guestEntered, interrupted, metric,
                   dumped, notified, sigPending, killer>>
    /\ UNCHANGED others

\* Err arm that goes round the loop after its side effects.
DispatchErr_Continue ==
    /\ vpc = "dispatch" /\ exit = "Err"
    /\ dumped' = TRUE
    /\ notified' = TRUE
    /\ Continue
    /\ UNCHANGED <<handle, raw, hostArgs, guestEntered, interrupted, metric,
                   sigPending, killer>>
    /\ UNCHANGED others

\* Err(e)
DispatchErr ==
    /\ vpc = "dispatch" /\ exit = "Err"
    /\ dumped' = TRUE
    /\ \E dumpOk \in BOOLEAN :
          IF ~dumpOk
          THEN /\ Return("CrashdumpError")
               /\ UNCHANGED notified
          ELSE /\ notified' = TRUE
               /\ Return("BackendError")
    /\ UNCHANGED <<handle, raw, hostArgs, guestEntered, interrupted, metric,
                   sigPending, killer>>
    /\ UNCHANGED others

(* ------------------ the interrupt handle: kill, send_signal ------------ *)
\* Where the vCPU thread is with respect to its run step.
CtxOf(p) ==
    CASE p = "guest" -> "guest"
      [] p = "hostcall" -> "host"
      [] p \in {"check", "ret", "classify"} -> "run"
      [] OTHER -> "out"

\* The entry of send_signal: sent_signal = false, target_generation = None.
EnterSendSignal(k, op) ==
    /\ kpc[k] = "idle"
    /\ kind' = [kind EXCEPT ![k] = op]
    /\ sent_signal' = [sent_signal EXCEPT ![k] = FALSE]
    /\ target_generation' = [target_generation EXCEPT ![k] = None]
    /\ snap' = [snap EXCEPT ![k] = NoSnap]
    /\ kStoreCtx' = [kStoreCtx EXCEPT ![k] = CtxOf(vpc)]
    /\ kStoreGen' = [kStoreGen EXCEPT ![k] = GenerationOf(running)]
    /\ kStoreSet' = [kStoreSet EXCEPT ![k] =
                        IF op = "kill" THEN cancel_requested ELSE debug_interrupt]
    /\ kpc' = [kpc EXCEPT ![k] = "loop"]
    /\ UNCHANGED kDropped

\* kill() that goes to send_signal without setting the flag.
Kill_NoStore(k) ==
    /\ EnterSendSignal(k, "kill")
    /\ UNCHANGED <<handle, vcpu, sigPending>>
    /\ UNCHANGED others

\* kill() that flips the flag instead of setting it.
Kill_Toggle(k) ==
    /\ cancel_requested' = ~cancel_requested
    /\ EnterSendSignal(k, "kill")
    /\ UNCHANGED <<running, tid, debug_interrupt, dropped, vcpu, sigPending>>
    /\ UNCHANGED others

\* kill() whose flag is one flag for every sandbox of the thread.
Kill_SharedFlag(k) ==
    /\ cancel_requested' = TRUE
    /\ cancel_requestedB' = TRUE
    /\ EnterSendSignal(k, "kill")
    /\ UNCHANGED <<running, tid, debug_interrupt, dropped, vcpu, sigPending>>
    /\ UNCHANGED <<arbiter, logger, vpcB, runningB, rawB, exitB, resultB>>

\* kill(): cancel_requested.store(true); send_signal()
Kill(k) ==
    /\ cancel_requested' = TRUE
    /\ EnterSendSignal(k, "kill")
    /\ UNCHANGED <<running, tid, debug_interrupt, dropped, vcpu, sigPending>>
    /\ UNCHANGED others

\* kill_from_debugger() that withdraws a pending cancellation.
KillFromDebugger_ClearsCancel(k) ==
    /\ debug_interrupt' = TRUE
    /\ cancel_requested' = FALSE
    /\ EnterSendSignal(k, "debug")
    /\ UNCHANGED <<running, tid, dropped, vcpu, sigPending>>
    /\ UNCHANGED others

\* kill_from_debugger(): debug_interrupt.store(true); send_signal()
KillFromDebugger(k) ==
    /\ debug_interrupt' = TRUE
    /\ EnterSendSignal(k, "debug")
    /\ UNCHANGED <<running, tid, cancel_requested, dropped, vcpu, sigPending>>
    /\ UNCHANGED others

\* dropped(): self.dropped.load(..), a single load whose value is returned.
Dropped(k) ==
    /\ kpc[k] = "idle"
    /\ kDropped' = [kDropped EXCEPT ![k] = dropped]
    /\ UNCHANGED <<kpc, kind, sent_signal, target_generation, snap, kStoreCtx,
                   kStoreGen, kStoreSet>>
    /\ UNCHANGED <<handle, vcpu, sigPending>>
    /\ UNCHANGED others

\* A loop that does not stop when the bit is clear.
NotRunningBreak_Never(s) == FALSE

\* if !running { break }
NotRunningBreak(s) == ~s.running

\* A loop without the generation test.
AbaBreak_Never(target, s) == FALSE

\* A loop that stops as soon as it has signalled once.
AbaBreak_AfterOneSignal(target, s) == target # None

\* Some(expected) if expected != generation => break
AbaBreak(target, s) == target # None /\ target # s.generation

\* A loop that never captures the generation.
NextTarget_Keep(target, s) == target

\* None => target_generation = Some(generation)
NextTarget(target, s) == IF target = None THEN s.generation ELSE target

\* One pass of send_signal's loop up to the signal: the snapshot and the two
\* break tests; past them sent_signal is set.
Snapshot(k) ==
    /\ kpc[k] = "loop"
    /\ LET s == GetRunningAndGeneration(running)
       IN  /\ snap' = [snap EXCEPT ![k] = s]
           /\ IF NotRunningBreak(s) \/ AbaBreak(target_generation[k], s)
              THEN /\ kpc' = [kpc EXCEPT ![k] = "done"]
                   /\ UNCHANGED <<target_generation, sent_signal>>
              ELSE /\ target_generation' =
                         [target_generation EXCEPT ![k] = NextTarget(@, s)]
                   /\ sent_signal' = [sent_signal EXCEPT ![k] = TRUE]
                   /\ kpc' = [kpc EXCEPT ![k] = "send"]
    /\ UNCHANGED <<handle, vcpu, sigPending, kind, kStoreCtx, kStoreGen,
                   kStoreSet, kDropped>>
    /\ UNCHANGED others

\* libc::pthread_kill(self.tid.load(..), signal_number); sleep(retry_delay)
PthreadKill(k) ==
    /\ kpc[k] = "send"
    /\ sigPending < MaxPending
    /\ sigPending' = IF tid = VcpuThread THEN sigPending + 1 ELSE sigPending
    /\ kpc' = [kpc EXCEPT ![k] = "loop"]
    /\ UNCHANGED <<handle, vcpu, kind, sent_signal, target_generation, snap,
                   kStoreCtx, kStoreGen, kStoreSet, kDropped>>
    /\ UNCHANGED others

\* send_signal returns sent_signal, and kill()/kill_from_debugger() returns it.
KillReturn(k) ==
    /\ kpc[k] = "done"
    /\ kpc' = [kpc EXCEPT ![k] = "idle"]
    /\ kind' = [kind EXCEPT ![k] = "none"]
    /\ sent_signal' = [sent_signal EXCEPT ![k] = FALSE]
    /\ target_generation' = [target_generation EXCEPT ![k] = None]
    /\ snap' = [snap EXCEPT ![k] = NoSnap]
    /\ kStoreCtx' = [kStoreCtx EXCEPT ![k] = "none"]
    /\ kStoreGen' = [kStoreGen EXCEPT ![k] = None]
    /\ kStoreSet' = [kStoreSet EXCEPT ![k] = FALSE]
    /\ UNCHANGED <<handle, vcpu, sigPending, kDropped>>
    /\ UNCHANGED others

(* --------------------------- specification ----------------------------- *)
Next ==
    \/ CallRun
    \/ Drop
    \/ StoreTid
    \/ BeginRun
    \/ CheckInterrupt
    \/ GuestExit
    \/ DeliverSignal
    \/ ClearRunning
    \/ Classify
    \/ DispatchHalt
    \/ DispatchIoOut
    \/ HandleIo
    \/ DispatchDebug
    \/ HandleDebug
    \/ DispatchMmio
    \/ DispatchAccessViolation
    \/ DispatchCancelled
    \/ DispatchUnknown
    \/ DispatchRetry
    \/ DispatchErr
    \/ \E k \in Killers : Kill(k)
    \/ \E k \in Killers : KillFromDebugger(k)
    \/ \E k \in Killers : Dropped(k)
    \/ \E k \in Killers : Snapshot(k)
    \/ \E k \in Killers : PthreadKill(k)
    \/ \E k \in Killers : KillReturn(k)

Spec == Init /\ [][Next]_vars

(* ------------------------- steps, as predicates ------------------------ *)
ClassifyStep == vpc = "classify" /\ vpc' = "dispatch"
DispatchStep == vpc = "dispatch" /\ vpc' # "dispatch"
SnapshotReturns(k) == kpc[k] = "loop" /\ kpc'[k] = "done"
KillCallIn(k, ctxs) ==
    kpc[k] # "idle" /\ kind[k] = "kill" /\ kStoreCtx[k] \in ctxs
Succ(g) == (g + 1) % RUNNING_BIT

KillOutcome(k) ==
    SnapshotReturns(k) =>
        /\ sent_signal'[k] <=> target_generation'[k] # None
        /\ ~sent_signal'[k] => ~snap'[k].running

\* A run step is reported Cancelled only with cancel_requested set beforehand,
\* and only a kill() sets it: the call precedes the Cancelled exit.
CancelFollowsKill ==
    /\ (ClassifyStep /\ exit' = "Cancelled") => cancel_requested
    /\ (cancel_requested' /\ ~cancel_requested)
         => \E k \in Killers : kpc[k] = "idle" /\ kind'[k] = "kill"

\* The flag this call set was not consumed by a run step before run step g.
StoredFor(k, g) ==
    \/ kStoreGen[k] = g
    \/ kStoreGen[k] # g /\ Succ(kStoreGen[k]) = g /\ kStoreCtx[k] \in {"out", "host"}

C4_AbaProtection ==
    [][ \A k \in Killers :
          /\ (target_generation[k] # None /\ kpc'[k] # "idle")
               => target_generation'[k] = target_generation[k]
          /\ (kpc[k] = "send" /\ kpc'[k] = "loop")
               => /\ snap[k].running
                  /\ snap[k].generation = target_generation[k]
          /\ (kpc[k] = "loop" /\ kpc'[k] # "loop" /\ target_generation[k] # None
                 /\ GenerationOf(running) # target_generation[k])
               => /\ kpc'[k] = "done"
                  /\ sigPending' = sigPending
      ]_vars

\* The call signalled run N, then saw run N+1 running and stopped.
C4_Witness ==
    \E k \in Killers :
        /\ kpc[k] = "done" /\ sent_signal[k]
        /\ snap[k].running
        /\ target_generation[k] # None
        /\ snap[k].generation = Succ(target_generation[k])
        /\ snap[k].generation # target_generation[k]

(* ----------------------------- C5 -------------------------------------- *)
\* A signal reaches the vCPU thread.
SignalArrives == sigPending' = sigPending - 1

\* C5: a signal that arrives while both flags are false changes nothing of the
\* interrupt state, the metric or the call's result; a run step classified with
\* both flags false is reported neither Cancelled nor Debug by an interruption
\* (an interrupted hypervisor call is reported Retry), the interrupt state
\* unchanged; and the Retry arm goes round the loop without failing the call.
C5_StaleSignalIgnored ==
    [][ /\ (SignalArrives /\ ~cancel_requested /\ ~debug_interrupt)
             => UNCHANGED <<handle, exit, result, metric, dumped, notified>>
        /\ (ClassifyStep /\ ~cancel_requested /\ ~debug_interrupt)
             => /\ exit' # "Cancelled"
                /\ raw = "EINTR" => exit' = "Retry"
                /\ exit' = "Debug" => raw = "Debug"
                /\ UNCHANGED handle
        /\ (DispatchStep /\ exit = "Retry")
             => /\ vpc' = "top"
                /\ UNCHANGED <<handle, result, metric, dumped, notified>>
      ]_vars

\* A stale signal has interrupted the guest: the run step is reported Retry.
C5_Witness ==
    /\ vpc = "dispatch" /\ exit = "Retry"
    /\ interrupted /\ guestEntered
    /\ ~cancel_requested /\ ~debug_interrupt
    /\ result = "none" /\ metric = 0

(* ----------------------------- C7 -------------------------------------- *)
\* C7: the run step that is reported Cancelled clears cancel_requested; nothing
\* but a kill() sets it again; a run step that starts with both flags clear
\* enters the guest, and one classified with cancel_requested clear is not
\* reported Cancelled.
C7_OneShot ==
    [][ /\ (ClassifyStep /\ exit' = "Cancelled")
             => (cancel_requested /\ ~cancel_requested')
        /\ (cancel_requested' /\ ~cancel_requested)
             => \E k \in Killers : kpc[k] = "idle" /\ kind'[k] = "kill"
        /\ (vpc = "check" /\ vpc' # "check" /\ ~cancel_requested /\ ~debug_interrupt)
             => (vpc' = "guest" /\ guestEntered')
        /\ (ClassifyStep /\ ~cancel_requested) => exit' # "Cancelled"
      ]_vars

\* One call was cancelled (the metric is 1); with no kill() since, a later run
\* step executed the guest to its Halt, and no cancellation is pending.
C7_Witness ==
    /\ metric = 1
    /\ vpc = "dispatch" /\ exit = "Halt" /\ guestEntered
    /\ ~cancel_requested
    /\ \A k \in Killers : kpc[k] = "idle"

(* ----------------------------- C8 -------------------------------------- *)
\* The call is a kill() that found cancel_requested already set when it set it.
RepeatedKill(k) ==
    kpc[k] # "idle" /\ kind[k] = "kill" /\ kStoreSet[k]

C9_ReturnsAfterRunEnds ==
    \A k \in Killers :
        kpc[k] = "done" =>
            /\ snap[k] # NoSnap
            /\ \/ ~snap[k].running
               \/ /\ target_generation[k] # None
                  /\ snap[k].generation # target_generation[k]

\* The call signalled a run step and returns on seeing the bit clear.
C9_Witness ==
    \E k \in Killers :
        /\ kpc[k] = "done" /\ sent_signal[k]
        /\ ~snap[k].running
        /\ snap[k].generation = target_generation[k]

(* ----------------------------- C10 ------------------------------------- *)
\* The vCPU thread's own code inside a run step, from the set running bit to
\* the cleared one, on either side of the hypervisor call; how long the guest
\* runs, a host call lasts, or the callers wait between calls is not bounded.
RunStepCode ==
    \/ CheckInterrupt
    \/ ClearRunning

\* Fair scheduling of the killer, of the vCPU thread inside its run step, and
\* of signal delivery.
FairSpec ==
    /\ Spec
    /\ WF_vars(RunStepCode)
    /\ WF_vars(DeliverSignal)
    /\ \A k \in Killers : WF_vars(Snapshot(k))
    /\ \A k \in Killers : WF_vars(PthreadKill(k))

\* C10: under fair scheduling every call of kill() or kill_from_debugger()
\* leaves send_signal's loop.
C10_KillTerminates ==
    \A k \in Killers : (kpc[k] # "idle") ~> (kpc[k] = "done")

\* The call signalled run N, which was cancelled and followed at once by run
\* N+1, and has left the loop.
C10_Witness ==
    \E k \in Killers :
        /\ kpc[k] = "done" /\ kind[k] = "kill" /\ sent_signal[k]
        /\ snap[k].running /\ snap[k].generation # target_generation[k]
        /\ metric = 1 /\ vpc = "guest"

(* ----------------------------- C11 ------------------------------------- *)
\* VirtualCPU::run returns to its caller.
RunReturns == vpc # "idle" /\ vpc' = "idle"

\* C11: VirtualCPU::run returns Ok exactly when a run step has exited Halt, and
\* it returns at that Halt; a call that returns Ok has invoked no crashdump, no
\* debug-stub notification and no metric increment, and when its first run step
\* is the one that halts, hv.run() was called once and handle_io never.
C11_OkIffHalt ==
    [][ /\ RunReturns => (result' = "Ok" <=> (vpc = "dispatch" /\ exit = "Halt"))
        /\ (DispatchStep /\ exit = "Halt")
             => /\ RunReturns
                /\ UNCHANGED <<handle, metric, dumped, notified, hostArgs,
                               looped>>
        /\ (RunReturns /\ result' = "Ok")
             => (~dumped' /\ ~notified' /\ metric' = metric /\ hostArgs' = NoArgs)
        /\ (vpc = "idle" /\ vpc' # "idle") => ~looped'
        /\ looped' # looped
             => \/ vpc = "idle"
                \/ /\ vpc' = "top"
                   /\ \/ vpc \in {"hostcall", "debugcall"}
                      \/ vpc = "dispatch" /\ exit = "Retry"
        /\ metric' # metric => result' = "ExecutionCanceledByHost"
      ]_vars

\* The guest halted at entry: the call has returned Ok after one run step that
\* executed the guest, with no side effect.
C11_Witness ==
    /\ vpc = "idle" /\ result = "Ok"
    /\ ~looped /\ guestEntered /\ ~interrupted
    /\ ~dumped /\ ~notified /\ metric = 0 /\ hostArgs = NoArgs

(* ----------------------------- C12 ------------------------------------- *)
\* The exits after which the call fails.
FatalExits == {"Mmio", "AccessViolation", "Cancelled", "Unknown", "Err"}

\* C12: the arm of each of Mmio, AccessViolation, Cancelled, Unknown and Err
\* returns an error from VirtualCPU::run; hv.run() is called again in the same
\* call only from the Retry arm or after handle_io or handle_debug succeeded,
\* and a call that has returned runs nothing until it is called again.
C12_ErrorsAreFatal ==
    [][ /\ (DispatchStep /\ exit \in FatalExits)
             => (RunReturns /\ result' \notin {"Ok", "none"})
        /\ (vpc # "top" /\ vpc' = "top")
             => \/ vpc = "idle"
                \/ vpc \in {"hostcall", "debugcall"}
                \/ vpc = "dispatch" /\ exit = "Retry"
        /\ (vpc = "idle" /\ vpc' # "idle")
             => (vpc' = "top" /\ result' = "none")
        /\ RunReturns => result' # "none"
      ]_vars

\* A backend error ended the call, after the loop had gone round.
C12_Witness ==
    /\ vpc = "idle" /\ result = "BackendError" /\ looped /\ dumped

(* ----------------------------- C13 ------------------------------------- *)
\* The error that belongs to a fatal exit.
PrimaryError(e, a) ==
    CASE e = "Mmio" -> "MmioAccess"
      [] e = "AccessViolation" ->
            IF IsStackGuard(a[3]) THEN "StackOverflow" ELSE "MemoryAccessViolation"
      [] e = "Unknown" -> "UnexpectedExit"
      [] e = "Err" -> "BackendError"
      [] OTHER -> "none"

\* C13 as stated: on the Mmio, AccessViolation, Unknown and Err arms, whether or
\* not the crashdump writer or the debug stub fails, VirtualCPU::run returns the
\* error of that exit (a failed handle_mem_access on the Mmio arm set aside).
C13_Original ==
    [][ (DispatchStep /\ exit \in {"Mmio", "AccessViolation", "Unknown", "Err"})
          => \/ result' = PrimaryError(exit, payload)
             \/ exit = "Mmio" /\ result' = "MemAccessError"
      ]_vars

(* ----------------------------- C14 ------------------------------------- *)
\* C14 as stated: on each of the Mmio, AccessViolation, Unknown and Err arms
\* the crashdump writer has been invoked and the debug stub has been told Crash
\* by the time the error is returned.
C14_Original ==
    [][ (DispatchStep /\ exit \in {"Mmio", "AccessViolation", "Unknown", "Err"})
          => (RunReturns /\ dumped' /\ notified')
      ]_vars

\* ------------------------------------------------------------------------
\* The memory-access arbiter, Hypervisor::get_memory_access_violation.
\* A pure function: its specification draws the region list, the address
\* and the attempted access from bounded sets and applies it once.

MaxAddr == 2
MaxRegions == 2

\* The flag sets the regions and the accesses are drawn from.
RegionFlags == {{"READ"}, {"READ", "WRITE"}, {"READ", "EXECUTE"},
                {STACK_GUARD}, {STACK_GUARD, "READ", "WRITE"}, {}}
AccessFlags == {{"READ"}, {"WRITE"}, {"READ", "WRITE"}, {"EXECUTE"}}

\* MemoryRegion: guest_region is a half-open Range<usize>, never empty.
MemoryRegion ==
    {r \in [guest_region : [start : 0..MaxAddr, end : 0..MaxAddr],
            flags : RegionFlags] : r.guest_region.start < r.guest_region.end}

RegionLists == UNION {[1..n -> MemoryRegion] : n \in 0..MaxRegions}

\* Range::contains with the end bound included.
RangeContains_Inclusive(range, item) == range.start <= item /\ item <= range.end

\* Range::contains: start <= item < end.
RangeContains(range, item) == range.start <= item /\ item < range.end

\* bitflags contains: every bit of other is in flags.
FlagsContains(flags, other) == other \subseteq flags

\* Iterator::find from position i: the index of the first region whose
\* range contains the address, 0 when there is none.
RECURSIVE FindFrom(_, _, _)
FindFrom(regions, addr, i) ==
    IF i > Len(regions) THEN 0
    ELSE IF RangeContains(regions[i].guest_region, addr) THEN i
    ELSE FindFrom(regions, addr, i + 1)

GetMemoryAccessViolation(addr, regions, access) ==
    LET region == FindFrom(regions, addr, 1)
    IN  IF region # 0
           /\ (\/ ~FlagsContains(regions[region].flags, access)
               \/ FlagsContains(regions[region].flags, {STACK_GUARD}))
        THEN <<"AccessViolation", addr, access, regions[region].flags>>
        ELSE <<"None">>

ArbiterInit ==
    /\ SandboxInit
    /\ SandboxBInit
    /\ LoggerIdle
    /\ mem_regions \in RegionLists
    /\ gpa \in 0..MaxAddr
    /\ access_info \in AccessFlags
    /\ violation = NotCalled

CallGetMemoryAccessViolation ==
    /\ violation = NotCalled
    /\ violation' = GetMemoryAccessViolation(gpa, mem_regions, access_info)
    /\ UNCHANGED <<mem_regions, gpa, access_info>>
    /\ UNCHANGED <<handle, vcpu, sigPending, killer, sandboxB, logger>>

ArbiterNext == CallGetMemoryAccessViolation

ArbiterSpec == ArbiterInit /\ [][ArbiterNext]_vars

\* The regions of the list whose half-open range holds the address.
Holding == {i \in 1..Len(mem_regions) :
               /\ mem_regions[i].guest_region.start <= gpa
               /\ gpa < mem_regions[i].guest_region.end}

FirstHolding == CHOOSE i \in Holding : \A j \in Holding : i <= j

Denies(i) ==
    \/ \E bit \in access_info : bit \notin mem_regions[i].flags
    \/ STACK_GUARD \in mem_regions[i].flags

\* C15: get_memory_access_violation returns AccessViolation(gpa, A, R.flags)
\* exactly when some region's half-open range holds gpa and the first such
\* region R lacks a bit of A or carries STACK_GUARD; otherwise it returns
\* none, also when gpa is a region's end address and no region holds it.
C15_Arbiter ==
    violation # NotCalled =>
        /\ (Holding # {} /\ Denies(FirstHolding)) =>
               violation = <<"AccessViolation", gpa, access_info,
                             mem_regions[FirstHolding].flags>>
        /\ ~(Holding # {} /\ Denies(FirstHolding)) => violation = <<"None">>

\* Two regions hold the address, the first denies the access and the
\* second would allow it: the first one decides, and its flags are returned.
C15_Witness ==
    /\ Len(mem_regions) = 2
    /\ Holding = {1, 2}
    /\ Denies(1) /\ ~Denies(2)
    /\ mem_regions[1].flags # mem_regions[2].flags
    /\ violation = <<"AccessViolation", gpa, access_info, mem_regions[1].flags>>

\* ------------------------------------------------------------------------
\* C16: every begin_run leaves the running bit set and the generation equal
\* to the previous generation plus one modulo the size of the generation
\* field; from MAX_GENERATION it yields generation 0 with the running bit
\* set; the update yields a packed word for every word it can be given; the
\* generation changes at no other step.
Words == 0..(2 * RUNNING_BIT - 1)

BeginRunStep == vpc = "begin" /\ vpc' = "check"

C16_GenerationArithmetic ==
    [][ /\ \A w \in Words :
             LET n == SetRunningAndIncrementGeneration(w)
             IN  /\ n \in Words
                 /\ RunningOf(n)
                 /\ GenerationOf(n) = (GenerationOf(w) + 1) % (MAX_GENERATION + 1)
        /\ BeginRunStep =>
             /\ RunningOf(running')
             /\ GenerationOf(running') =
                    (GenerationOf(running) + 1) % (MAX_GENERATION + 1)
             /\ GenerationOf(running) = MAX_GENERATION => running' = RUNNING_BIT
        /\ GenerationOf(running') # GenerationOf(running) => BeginRunStep
        /\ vpc = "begin" => vpc' \in {"begin", "check"} ]_vars

\* A run step has begun from generation MAX_GENERATION: the generation has
\* restarted from 0 and the running bit is set.
C16_Witness == vpc = "check" /\ running = RUNNING_BIT /\ tid = VcpuThread

\* ------------------------------------------------------------------------
\* C17: an AccessViolation exit whose region flags include STACK_GUARD makes
\* VirtualCPU::run fail with StackOverflow; one whose region flags do not
\* makes it fail with MemoryAccessViolation carrying the exit's own three
\* values; the crashdump writer has been called in both cases.
C17_Original ==
    [][ (DispatchStep /\ exit = "AccessViolation") =>
            /\ RunReturns
            /\ dumped'
            /\ IF STACK_GUARD \in payload[3]
               THEN result' = "StackOverflow" /\ errArgs' = NoArgs
               ELSE result' = "MemoryAccessViolation" /\ errArgs' = payload ]_vars

\* ------------------------------------------------------------------------
\* C18: while the vCPU thread is inside a run step, the running bit of the
\* packed word is set, its generation is the one the run step began with,
\* and tid is that thread; so every signal a killer sends, having observed
\* the running bit, goes to the thread that executes or last executed the
\* sandbox's run step.
InRunStep == vpc \in {"check", "guest", "ret"}

SignalSent(k) == kpc[k] = "send" /\ kpc'[k] = "loop"

CallRunShared ==
    /\ vpcB = "idle"
    /\ CallRun

\* VirtualCPU::run of B begins when the thread is free.
CallRunB ==
    /\ vpc = "idle"
    /\ vpcB = "idle"
    /\ vpcB' = "begin"
    /\ resultB' = "none"
    /\ UNCHANGED <<runningB, cancel_requestedB, rawB, exitB>>
    /\ UNCHANGED <<handle, vcpu, sigPending, killer, arbiter, logger>>

\* B's run step, step 1: set the running bit and increment the generation.
BeginRunB ==
    /\ vpcB = "begin"
    /\ runningB' = SetRunningAndIncrementGeneration(runningB)
    /\ rawB' = "none"
    /\ vpcB' = "check"
    /\ UNCHANGED <<cancel_requestedB, exitB, resultB>>
    /\ UNCHANGED <<handle, vcpu, sigPending, killer, arbiter, logger>>

\* B's run step: a pending interrupt of B skips the guest.
CheckInterruptB ==
    /\ vpcB = "check"
    /\ IF cancel_requestedB
       THEN rawB' = "EINTR" /\ vpcB' = "ret"
       ELSE rawB' = rawB /\ vpcB' = "guest"
    /\ UNCHANGED <<runningB, cancel_requestedB, exitB, resultB>>
    /\ UNCHANGED <<handle, vcpu, sigPending, killer, arbiter, logger>>

\* B's guest halts.
GuestExitB ==
    /\ vpcB = "guest"
    /\ rawB' = "Halt"
    /\ vpcB' = "ret"
    /\ UNCHANGED <<runningB, cancel_requestedB, exitB, resultB>>
    /\ UNCHANGED <<handle, vcpu, sigPending, killer, arbiter, logger>>

\* A signal reaches the thread: the hypervisor call in flight, of either
\* sandbox, comes back interrupted.
DeliverSignalShared ==
    /\ sigPending > 0
    /\ IF vpcB = "guest"
       THEN /\ sigPending' = sigPending - 1
            /\ rawB' = "EINTR"
            /\ vpcB' = "ret"
            /\ UNCHANGED <<runningB, cancel_requestedB, exitB, resultB>>
            /\ UNCHANGED <<handle, vcpu, killer, arbiter, logger>>
       ELSE DeliverSignal

\* B's run step, step 2: clear the running bit.
ClearRunningB ==
    /\ vpcB = "ret"
    /\ runningB' = ClearRunningBit(runningB)
    /\ vpcB' = "classify"
    /\ UNCHANGED <<cancel_requestedB, rawB, exitB, resultB>>
    /\ UNCHANGED <<handle, vcpu, sigPending, killer, arbiter, logger>>

\* B's run step, step 3: B's own flag is reported and cleared; otherwise the
\* hypervisor's exit is reported.
ClassifyB ==
    /\ vpcB = "classify"
    /\ IF cancel_requestedB
       THEN exitB' = "Cancelled" /\ cancel_requestedB' = FALSE
       ELSE exitB' = ExitOfRaw(rawB) /\ UNCHANGED cancel_requestedB
    /\ vpcB' = "dispatch"
    /\ UNCHANGED <<runningB, rawB, resultB>>
    /\ UNCHANGED <<handle, vcpu, sigPending, killer, arbiter, logger>>

\* VirtualCPU::run of B: the Halt, Cancelled and Retry arms.
DispatchB ==
    /\ vpcB = "dispatch"
    /\ CASE exitB = "Halt" -> vpcB' = "idle" /\ resultB' = "Ok"
         [] exitB = "Cancelled" ->
                vpcB' = "idle" /\ resultB' = "ExecutionCanceledByHost"
         [] OTHER -> vpcB' = "begin" /\ resultB' = resultB
    /\ exitB' = "none"
    /\ UNCHANGED <<runningB, cancel_requestedB, rawB>>
    /\ UNCHANGED <<handle, vcpu, sigPending, killer, arbiter, logger>>

SharedNext ==
    \/ CallRunShared
    \/ StoreTid
    \/ BeginRun
    \/ CheckInterrupt
    \/ GuestExit
    \/ DeliverSignalShared
    \/ ClearRunning
    \/ Classify
    \/ DispatchHalt
    \/ DispatchIoOut
    \/ HandleIo
    \/ DispatchDebug
    \/ HandleDebug
    \/ DispatchMmio
    \/ DispatchAccessViolation
    \/ DispatchCancelled
    \/ DispatchUnknown
    \/ DispatchRetry
    \/ DispatchErr
    \/ CallRunB
    \/ BeginRunB
    \/ CheckInterruptB
    \/ GuestExitB
    \/ ClearRunningB
    \/ ClassifyB
    \/ DispatchB
    \/ \E k \in Killers : Kill(k)
    \/ \E k \in Killers : Snapshot(k)
    \/ \E k \in Killers : PthreadKill(k)
    \/ \E k \in Killers : KillReturn(k)

SharedThreadSpec == Init /\ [][SharedNext]_vars

\* C19: with two sandboxes running their steps on one host thread, never
\* both with the running bit set, a kill() on the first sandbox's handle
\* never makes a run step of B exit Cancelled or VirtualCPU::run on B fail,
\* and never sets B's cancel_requested; a signal of that kill() that lands
\* in B's hypervisor call makes B's run step exit Retry.
C19_Isolation ==
    [][ /\ ~cancel_requestedB'
        /\ exitB' # "Cancelled"
        /\ resultB' \in {"none", "Ok"}
        /\ ~(RunningOf(running') /\ RunningOf(runningB'))
        /\ (\E k \in Killers : kpc[k] = "idle" /\ kpc'[k] # "idle")
             => (cancel_requested' /\ UNCHANGED sandboxB)
        /\ (vpcB = "classify" /\ vpcB' = "dispatch" /\ rawB = "EINTR")
             => exitB' = "Retry"
        /\ (vpcB # "idle" /\ vpcB' = "idle") => resultB' = "Ok" ]_vars

\* kill() on the first sandbox signalled the thread, the signal interrupted
\* B's hypervisor call, and B's run step reported Retry.
C19_Witness ==
    /\ vpcB = "dispatch" /\ exitB = "Retry" /\ rawB = "EINTR"
    /\ vpc = "idle"
    /\ \E k \in Killers : kind[k] = "kill" /\ sent_signal[k]

\* ------------------------------------------------------------------------
\* C20: for every IoOut(port, data, rip, insn_len) exit VirtualCPU::run calls
\* handle_io once, with those four values, before the next backend.run(); if
\* handle_io succeeds the loop continues, and if it fails the loop returns
\* that error without running the vCPU again and without a crashdump.
HandleIoCalled == vpc = "dispatch" /\ vpc' = "hostcall"
HandleIoReturns == vpc = "hostcall" /\ vpc' # "hostcall"

C20_HandleIo ==
    [][ /\ (DispatchStep /\ exit = "IoOut") => (HandleIoCalled /\ hostArgs' = payload)
        /\ (vpc # "hostcall" /\ vpc' = "hostcall") =>
               (HandleIoCalled /\ exit = "IoOut" /\ payload \in IoOutArgs)
        /\ vpc = "hostcall" =>
               (hostArgs = payload /\ exit = "IoOut" /\ ~RunningOf(running))
        /\ (vpc = "hostcall" /\ vpc' = "hostcall") => hostArgs' = hostArgs
        /\ HandleIoReturns =>
               /\ hostArgs' = NoArgs
               /\ running' = running
               /\ \/ vpc' = "top" /\ looped' /\ result' = "none"
                  \/ vpc' = "idle" /\ result' = "HandleIoError" /\ ~dumped'
        /\ hostArgs' # hostArgs => (HandleIoCalled \/ HandleIoReturns)
        /\ BeginRunStep => hostArgs = NoArgs
        /\ result' = "HandleIoError" => (HandleIoReturns \/ result = "HandleIoError")
      ]_vars

\* handle_io is being called for the second IoOut exit of one call of
\* VirtualCPU::run: the first call succeeded and the vCPU ran again.
C20_Witness ==
    /\ vpc = "hostcall"
    /\ looped
    /\ exit = "IoOut"
    /\ hostArgs = <<81, 2, 8192, 3>>
    /\ payload = hostArgs

\* ------------------------------------------------------------------------
\* C21: kill(), kill_from_debugger() and dropped() never modify the packed
\* word or tid and never clear cancel_requested or debug_interrupt: kill()
\* only sets cancel_requested, kill_from_debugger() only sets
\* debug_interrupt, dropped() only reads. clear_running_bit clears the
\* running bit and keeps the generation, so the generation changes only in
\* begin_run; the two flags are cleared only by the vCPU thread's run step.
HandleCall(k, op) == kpc[k] = "idle" /\ kpc'[k] # "idle" /\ kind'[k] = op

CallerStep(k) == kpc'[k] # kpc[k]

\* dropped() returns a value other than its last one.
DroppedReturns(k) == kDropped'[k] # kDropped[k]

ClearRunningStep == vpc = "ret" /\ vpc' = "classify"

C21_Frame ==
    [][ /\ \A k \in Killers :
             /\ CallerStep(k) =>
                   /\ running' = running /\ tid' = tid /\ dropped' = dropped
                   /\ cancel_requested => cancel_requested'
                   /\ debug_interrupt => debug_interrupt'
             /\ HandleCall(k, "kill") =>
                   (cancel_requested' /\ debug_interrupt' = debug_interrupt)
             /\ HandleCall(k, "debug") =>
                   (debug_interrupt' /\ cancel_requested' = cancel_requested)
             /\ DroppedReturns(k) =>
                   (UNCHANGED <<handle, vcpu, sigPending>> /\ kDropped'[k] = dropped)
             /\ kDropped[k] => dropped
             /\ (CallerStep(k) /\ kpc[k] # "idle") => UNCHANGED handle
        /\ ClearRunningStep =>
             /\ RunningOf(running) /\ ~RunningOf(running')
             /\ GenerationOf(running') = GenerationOf(running)
             /\ UNCHANGED <<tid, cancel_requested, debug_interrupt, dropped>>
        /\ \A w \in Words :
             /\ ~RunningOf(ClearRunningBit(w))
             /\ GenerationOf(ClearRunningBit(w)) = GenerationOf(w)
        /\ running' # running => (BeginRunStep \/ ClearRunningStep)
        /\ (\/ cancel_requested /\ ~cancel_requested'
            \/ debug_interrupt /\ ~debug_interrupt') => ClassifyStep ]_vars

\* dropped() has returned true, and then kill_from_debugger() has been
\* called while a cancellation was pending: both flags are set, and the
\* packed word and tid are as the last run step left them.
C21_Witness ==
    \E k \in Killers :
        /\ kpc[k] = "loop" /\ kind[k] = "debug"
        /\ kDropped[k] /\ dropped
        /\ cancel_requested /\ debug_interrupt
        /\ running = 0
        /\ tid = VcpuThread

\* ------------------------------------------------------------------------
\* Log-level negotiation, Hypervisor::get_max_log_level. A pure function of
\* the value of RUST_LOG: its specification draws the value from the strings
\* of bounded length and applies it once. A string is a sequence of pieces:
\* the two separators, the two logger names, and two level words; a piece is
\* never part of a logger name, and a run of several words is no level.

MaxLen == 6

\* "hyperlight_guest" and "hyperlight_host"
GuestName == "hyperlight_guest"
HostName == "hyperlight_host"

Pieces == {",", "=", GuestName, HostName, "debug", "INFO"}

Strings == UNION {[1..n -> Pieces] : n \in 0..MaxLen}

\* LevelFilter as u32
LevelError == 1
LevelInfo == 3
LevelDebug == 4

\* str::contains(name)
StrContains(str, name) == \E i \in 1..Len(str) : str[i] = name

\* str::split(sep): the pieces between the separators, in order; a string
\* without the separator is its own single part, the empty string included.
RECURSIVE SplitFrom(_, _, _, _)
SplitFrom(str, sep, i, part) ==
    IF i > Len(str) THEN <<part>>
    ELSE IF str[i] = sep
         THEN <<part>> \o SplitFrom(str, sep, i + 1, << >>)
         ELSE SplitFrom(str, sep, i + 1, Append(part, str[i]))

Split(str, sep) == SplitFrom(str, sep, 1, << >>)

\* Iterator::find(|s| s.contains(name)).unwrap_or("")
RECURSIVE FindContaining(_, _, _)
FindContaining(parts, name, i) ==
    IF i > Len(parts) THEN << >>
    ELSE IF StrContains(parts[i], name) THEN parts[i]
    ELSE FindContaining(parts, name, i + 1)

\* Iterator::find(|s| !s.contains("=")).unwrap_or("")
RECURSIVE FindWithout(_, _, _)
FindWithout(parts, name, i) ==
    IF i > Len(parts) THEN << >>
    ELSE IF ~StrContains(parts[i], name) THEN parts[i]
    ELSE FindWithout(parts, name, i + 1)

\* Iterator::nth(1).unwrap_or("")
Nth1(parts) == IF Len(parts) >= 2 THEN parts[2] ELSE << >>

\* LevelFilter::from_str(level).unwrap_or(LevelFilter::Error) as u32; the
\* comparison with the level names ignores ASCII case.
FromStrOrError(level) ==
    IF Len(level) # 1 THEN LevelError
    ELSE CASE level[1] \in {"debug", "DEBUG"} -> LevelDebug
           [] level[1] \in {"info", "INFO"} -> LevelInfo
           [] OTHER -> LevelError

\* The host logger's segment looked for before the guest logger's.
GetMaxLogLevel_HostFirst(v) ==
    LET level ==
            IF StrContains(v, HostName)
            THEN Nth1(Split(FindContaining(Split(v, ","), HostName, 1), "="))
            ELSE IF StrContains(v, GuestName)
            THEN Nth1(Split(FindContaining(Split(v, ","), GuestName, 1), "="))
            ELSE FindWithout(Split(v, ","), "=", 1)
    IN  FromStrOrError(level)

GetMaxLogLevel(v) ==
    LET level ==
            IF StrContains(v, GuestName)
            THEN Nth1(Split(FindContaining(Split(v, ","), GuestName, 1), "="))
            ELSE IF StrContains(v, HostName)
            THEN Nth1(Split(FindContaining(Split(v, ","), HostName, 1), "="))
            ELSE FindWithout(Split(v, ","), "=", 1)
    IN  FromStrOrError(level)

LoggerInit ==
    /\ SandboxInit
    /\ ArbiterIdle
    /\ SandboxBInit
    /\ val \in Strings
    /\ max_log_level = NoLevel

CallGetMaxLogLevel ==
    /\ max_log_level = NoLevel
    /\ max_log_level' = GetMaxLogLevel(val)
    /\ UNCHANGED val
    /\ UNCHANGED <<handle, vcpu, sigPending, killer, arbiter, sandboxB>>

LoggerNext == CallGetMaxLogLevel

LoggerSpec == LoggerInit /\ [][LoggerNext]_vars

\* The segments of val, each given by its first and last position: the
\* maximal stretches without a comma (last = first - 1 for an empty one).
SegmentStarts == {1} \cup {i + 1 : i \in {j \in 1..Len(val) : val[j] = ","}}

SegmentEnd(a) ==
    LET stops == {j \in a..Len(val) : val[j] = ","} \cup {Len(val) + 1}
    IN  (CHOOSE j \in stops : \A l \in stops : j <= l) - 1

Mentions(a, name) == \E i \in a..SegmentEnd(a) : val[i] = name

\* The text of the segment at a between its first `=` and the next `=` or
\* the end of the segment; empty when the segment has no `=`.
AfterEq(a) ==
    LET eqs == {i \in a..SegmentEnd(a) : val[i] = "="}
        first == CHOOSE i \in eqs : \A l \in eqs : i <= l
        later == {i \in eqs : i > first} \cup {SegmentEnd(a) + 1}
        stop == CHOOSE i \in later : \A l \in later : i <= l
    IN  IF eqs = {} THEN << >> ELSE SubSeq(val, first + 1, stop - 1)

\* The level a token stands for; Error when it is no level.
LevelOf(token) ==
    IF token = <<"debug">> THEN LevelDebug
    ELSE IF token = <<"INFO">> THEN LevelInfo
    ELSE LevelError

GuestSegments == {a \in SegmentStarts : Mentions(a, GuestName)}
HostSegments == {a \in SegmentStarts : Mentions(a, HostName)}
BareSegments == {a \in SegmentStarts : ~Mentions(a, "=")}
FirstBare == CHOOSE a \in BareSegments : \A b \in BareSegments : a <= b

\* C22: get_max_log_level gives the level after `=` of a segment that
\* mentions the guest logger name if any segment does, whatever the order
\* of the segments; otherwise that of a segment that mentions the host
\* logger name; otherwise the first segment without `=`; and Error when
\* the selected token is no level, as when there is neither name and no
\* bare token, or a name segment without `=`.
C22_LogLevel ==
    max_log_level # NoLevel =>
        IF GuestSegments # {}
        THEN \E a \in GuestSegments : max_log_level = LevelOf(AfterEq(a))
        ELSE IF HostSegments # {}
        THEN \E a \in HostSegments : max_log_level = LevelOf(AfterEq(a))
        ELSE IF BareSegments # {}
        THEN max_log_level =
                 LevelOf(SubSeq(val, FirstBare, SegmentEnd(FirstBare)))
        ELSE max_log_level = LevelError

\* The host logger's segment comes first and the guest logger's second: the
\* level of the guest logger's segment is the result.
C22_Witness ==
    /\ val = <<HostName, ",", GuestName, "=", "debug">>
    /\ max_log_level = LevelDebug

====
